---- MODULE Spec2Model ----
(***************************************************************************)
(* A model of ptyrodactyl's electron forward model (electrons/forward.py)  *)
(* and of its four gradient-descent reconstruction loops                   *)
(* (electrons/inverse.py, tools/loss_functions.py).                        *)
(*                                                                         *)
(* Two specifications share the module:                                    *)
(*   Spec         one call of a reconstruction loop, from the building of  *)
(*                the loss function to the returned tuple;                 *)
(*   SpecForward  calls of cbed and stem_4D on small complex fields.       *)
(*                                                                         *)
(* Array values of the reconstruction loops are symbolic terms (tuples     *)
(* whose first element names the operation that produced them), so two     *)
(* values are equal exactly when they were computed the same way from the  *)
(* same inputs.  Field values of the forward model are Gaussian integers.  *)
(***************************************************************************)
EXTENDS Integers, Sequences, FiniteSets, TLC

VARIABLES
    \* ---- the call's configuration (inverse.py:30-42 and siblings)
    loop,                   \* which reconstruction function is called
    num_iterations,
    save_every,
    learning_rate,
    loss_type,
    optimizer_name,
    real_space,             \* initial_beam.real_space
    \* ---- the locals of the running call
    pc,                     \* position in the function body
    loss_func,              \* result of ptt.create_loss_function
    optimizer,              \* result of get_optimizer
    pot_slice_state,
    beam_state,
    pos_state,
    pot_slice,              \* pot_slice / pot_guess: current potential estimate
    beam,                   \* beam / beam_guess: current beam estimate
    pos_list,               \* pos_list / pos_guess: current positions
    intermediate_potslice,
    intermediate_beam,
    intermediate_positions,
    ii,                     \* the for loop's counter
    loss,                   \* the loss returned by the last update_step
    error,                  \* <<exception, raised by>> once the call has failed
    returned,               \* the tuple the call returns
    \* ---- history of the run (not program state)
    update_count,           \* completed executions of update_step
    forward_evals,          \* calls of loss_and_grad (forward model + gradient)
    printed,                \* the progress reports, in order
    snap_log,               \* one record per iteration that took a snapshot
    data_shape,             \* experimental_4dstem.shape, <<P, H, W>>
    stem_4D_seen,           \* the shapes of the last stem_4D call
    \* ---- the forward model (SpecForward)
    f_pc,                   \* position in the forward-model call
    f_pot,                  \* cbed/stem_4D argument pot_slice  [H,W,S]
    f_beam,                 \* cbed/stem_4D argument beam       [H,W,M]
    f_pos,                  \* stem_4D argument positions       [P,2]
    slice_thickness,        \* cbed/stem_4D argument slice_thickness
    wave,                   \* the carry of lax.scan in cbed
    slice_idx,              \* the next element of jnp.arange(num_slices)
    scan_log,               \* one record per executed scan_fn step
    f_out,                  \* the value returned by the call
    voltage_kV,             \* wavelength_ang/transmission_func argument
    f_exc,                  \* the exception the call raised, or "none"
    image_size              \* <<imsize_y, imsize_x>> of a frequency-grid call

loop_vars == <<loop, num_iterations, save_every, learning_rate, loss_type,
               optimizer_name, real_space, returned, pc, loss_func, optimizer, pot_slice_state,
               beam_state, pos_state, pot_slice, beam, pos_list,
               intermediate_potslice, intermediate_beam,
               intermediate_positions, ii, loss, error, update_count,
               forward_evals, printed, snap_log, data_shape, stem_4D_seen>>

forward_vars == <<f_pc, f_pot, f_beam, f_pos, slice_thickness, wave, slice_idx,
                  scan_log, f_out, voltage_kV, f_exc, image_size>>

vars == <<loop_vars, forward_vars>>

(***************************************************************************)
(* Bounds of the model.                                                    *)
(***************************************************************************)
MaxIterations == 3
MaxSaveEvery == 3
MaxSlices == 2
MaxModes == 2
MaxPositions == 2
MaxSize == 4

(***************************************************************************)
(* PART 1.  The reconstruction loops (electrons/inverse.py).               *)
(***************************************************************************)

Loops == {"single_slice_ptychography", "single_slice_poscorrected",
          "single_slice_multi_modal", "multi_slice_multi_modal"}

\* The loops that also optimise the scan positions.
PositionLoops == Loops \ {"single_slice_ptychography"}

\* The loops whose initial potential and beam are pte.CalibratedArray values
\* (inverse.py:32-33, 187-188); the other two take plain arrays.
CalibratedLoops == {"single_slice_ptychography", "single_slice_poscorrected"}

\* Names a caller may pass; "sgd" and "huber" are not registered.
OptimizerNameInputs == {"adam", "adagrad", "rmsprop", "sgd"}
LossTypeInputs == {"mae", "mse", "rmse", "huber"}

\* learning_rate as the caller passes it: a scalar, or a 2-element array.
ScalarRate == <<"learning_rate", 0>>
PairRate == <<"learning_rate", 1>>
ndim(rate) == rate[2]

None == <<"None">>
NoError == <<"none", "none">>

\* The outcome of a call that may raise.
Return(v) == [exc |-> "none", value |-> v]
Raise(e) == [exc |-> e, value |-> None]

\* OPTIMIZERS (inverse.py:16-20): name -> Optimizer(init, update).
OPTIMIZERS ==
    ("adam" :> <<"Optimizer", "init_adam", "adam_update">>) @@
    ("adagrad" :> <<"Optimizer", "init_adagrad", "adagrad_update">>) @@
    ("rmsprop" :> <<"Optimizer", "init_rmsprop", "rmsprop_update">>)

get_optimizer_default(name) ==
    IF name \notin DOMAIN OPTIMIZERS
    THEN Return(OPTIMIZERS["adam"])
    ELSE Return(OPTIMIZERS[name])

\* get_optimizer (inverse.py:23-26).
get_optimizer(name) ==
    IF name \notin DOMAIN OPTIMIZERS
    THEN Raise("ValueError")
    ELSE Return(OPTIMIZERS[name])

\* loss_functions (loss_functions.py:53): the closed set of reductions.
loss_functions ==
    ("mae" :> <<"mae_loss">>) @@ ("mse" :> <<"mse_loss">>) @@
    ("rmse" :> <<"rmse_loss">>)

create_loss_function_lazy(forward_function, experimental_data, type) ==
    Return(<<"loss_fn", forward_function, experimental_data,
             IF type \in DOMAIN loss_functions
             THEN loss_functions[type] ELSE <<"unresolved", type>> >>)

\* create_loss_function (loss_functions.py:8-68): the reduction is looked up
\* when the loss function is built; a key outside the dict raises KeyError.
create_loss_function(forward_function, experimental_data, type) ==
    IF type \notin DOMAIN loss_functions
    THEN Raise("KeyError")
    ELSE Return(<<"loss_fn", forward_function, experimental_data,
                  loss_functions[type]>>)

\* forward_fn of each loop: stem_4D on pot_slice[None, ...], beam[None, ...].
forward_fn(l) == <<"forward_fn", l>>

\* x[None, ...] (inverse.py:101-102, 257-258, 454-455, 608-609): a new axis
\* of size 1 in front of the axes of x.
add_leading_axis(shape) == <<1>> \o shape

\* The shapes in a call of stem_4D (forward.py:547-612) with a potential and
\* a beam of three axes: axes 0 and 1 are taken as the image rows and
\* columns, `H W`, and axis 2 as the slices or the modes; cbed
\* (forward.py:449-480) takes num_slices from the last axis of pot_slice,
\* the image size from beam.shape[0] and beam.shape[1] and sums over the last
\* axis, and the patterns are stacked along the positions.
stem_4D_shapes(pot_shape, beam_shape, num_positions) ==
    [pot_slice |-> pot_shape,
     beam |-> beam_shape,
     spatial_pot |-> <<pot_shape[1], pot_shape[2]>>,
     spatial_beam |-> <<beam_shape[1], beam_shape[2]>>,
     num_slices |-> pot_shape[3],
     num_modes |-> beam_shape[3],
     patterns |-> <<num_positions, beam_shape[1], beam_shape[2]>>]

\* What forward_fn (inverse.py:99-107, 255-263, 452-460, 606-614) hands to
\* stem_4D for a potential and a beam of shape [H, W] and P positions;
\* shape is experimental_4dstem.shape.
forward_fn_shapes(shape) ==
    stem_4D_shapes(add_leading_axis(<<shape[2], shape[3]>>),
                   add_leading_axis(<<shape[2], shape[3]>>), shape[1])

\* optimizer.init(shape) and optimizer.update(params, grads, state, lr):
\* the interface of ptt.Optimizer; the result is a new array and a new state.
optimizer_init(opt, shape) == <<"state", opt[2], shape>>
optimizer_update(opt, params, grads, state, rate) ==
    [params |-> <<"updated", opt[3], params, grads, state, rate>>,
     state |-> <<"state", opt[3], grads, state>>]

\* loss_and_grad (inverse.py:111-116, 275-284, 465-474, 620-629): one
\* jax.value_and_grad evaluation of loss_func at args.
loss_and_grad(lf, args) ==
    [loss |-> <<"loss", lf, args>>,
     grads |-> [pot_slice |-> <<"grad", 0, lf, args>>,
                beam |-> <<"grad", 1, lf, args>>,
                pos_list |-> <<"grad", 2, lf, args>>]]

\* The learning rate that update_step hands to the position update: the name
\* the body of each update_step refers to, resolved in that function's scope
\* (inverse.py:306, 491, 646).  single_slice_multi_modal has no parameter and
\* no local named pos_learning_rate, and the module has no such global.
pos_learning_rate(l, rate) ==
    CASE l = "single_slice_poscorrected" -> Return(<<"index", rate, 1>>)
      [] l = "multi_slice_multi_modal" -> Return(<<"pos_learning_rate">>)
      [] l = "single_slice_multi_modal" -> Raise("NameError")
      [] OTHER -> Return(None)

\* Faulty variants of update_step: the potential update starts from
\* `pot_used` and reads the optimizer state `pot_st_used`.
update_step_variant(l, opt, lf, rate, pot_used, bm, pos, pot_st_used,
                    beam_st, pos_st) ==
    LET args == IF l \in PositionLoops
                THEN <<pot_used, bm, pos>> ELSE <<pot_used, bm>>
        lg == loss_and_grad(lf, args)
        p == optimizer_update(opt, pot_used, lg.grads.pot_slice, pot_st_used,
                              rate)
        b == optimizer_update(opt, bm, lg.grads.beam, beam_st, rate)
        plr == pos_learning_rate(l, rate)
        x == optimizer_update(opt, pos, lg.grads.pos_list, pos_st, plr.value)
    IN  IF l \in PositionLoops /\ plr.exc # "none"
        THEN Raise(plr.exc)
        ELSE Return([pot_slice |-> p.params, beam |-> b.params,
                     pos_list |-> IF l \in PositionLoops
                                  THEN x.params ELSE pos,
                     pot_slice_state |-> p.state, beam_state |-> b.state,
                     pos_state |-> IF l \in PositionLoops
                                   THEN x.state ELSE pos_st,
                     loss |-> lg.loss])

update_step_restart(l, opt, lf, rate, pot, bm, pos, pot_st, beam_st, pos_st) ==
    update_step_variant(l, opt, lf, rate, <<"initial_potential">>, bm, pos,
                        pot_st, beam_st, pos_st)

update_step_shared(l, opt, lf, rate, pot, bm, pos, pot_st, beam_st, pos_st) ==
    update_step_variant(l, opt, lf, rate, pot, bm, pos, beam_st, beam_st,
                        pos_st)

\* A variant of update_step that evaluates the gradient of the beam after
\* the potential has been updated.
update_step_sequential(l, opt, lf, rate, pot, bm, pos, pot_st, beam_st, pos_st) ==
    LET args == IF l \in PositionLoops THEN <<pot, bm, pos>> ELSE <<pot, bm>>
        lg == loss_and_grad(lf, args)
        p == optimizer_update(opt, pot, lg.grads.pot_slice, pot_st, rate)
        later == loss_and_grad(lf, IF l \in PositionLoops
                                   THEN <<p.params, bm, pos>>
                                   ELSE <<p.params, bm>>)
        b == optimizer_update(opt, bm, later.grads.beam, beam_st, rate)
        plr == pos_learning_rate(l, rate)
        x == optimizer_update(opt, pos, lg.grads.pos_list, pos_st, plr.value)
    IN  IF l \in PositionLoops /\ plr.exc # "none"
        THEN Raise(plr.exc)
        ELSE Return([pot_slice |-> p.params, beam |-> b.params,
                     pos_list |-> IF l \in PositionLoops
                                  THEN x.params ELSE pos,
                     pot_slice_state |-> p.state, beam_state |-> b.state,
                     pos_state |-> IF l \in PositionLoops
                                   THEN x.state ELSE pos_st,
                     loss |-> lg.loss])

\* A variant of update_step that reports the loss of the values it returns.
update_step_loss_after(l, opt, lf, rate, pot, bm, pos, pot_st, beam_st, pos_st) ==
    LET args == IF l \in PositionLoops THEN <<pot, bm, pos>> ELSE <<pot, bm>>
        lg == loss_and_grad(lf, args)
        p == optimizer_update(opt, pot, lg.grads.pot_slice, pot_st, rate)
        b == optimizer_update(opt, bm, lg.grads.beam, beam_st, rate)
        plr == pos_learning_rate(l, rate)
        x == optimizer_update(opt, pos, lg.grads.pos_list, pos_st, plr.value)
        new_pos == IF l \in PositionLoops THEN x.params ELSE pos
        after == loss_and_grad(lf, IF l \in PositionLoops
                                   THEN <<p.params, b.params, new_pos>>
                                   ELSE <<p.params, b.params>>)
    IN  IF l \in PositionLoops /\ plr.exc # "none"
        THEN Raise(plr.exc)
        ELSE Return([pot_slice |-> p.params, beam |-> b.params,
                     pos_list |-> new_pos,
                     pot_slice_state |-> p.state, beam_state |-> b.state,
                     pos_state |-> IF l \in PositionLoops
                                   THEN x.state ELSE pos_st,
                     loss |-> after.loss])

\* update_step (inverse.py:129-138, 296-308, 481-493, 636-648).
update_step(l, opt, lf, rate, pot, bm, pos, pot_st, beam_st, pos_st) ==
    LET args == IF l \in PositionLoops THEN <<pot, bm, pos>> ELSE <<pot, bm>>
        lg == loss_and_grad(lf, args)
        p == optimizer_update(opt, pot, lg.grads.pot_slice, pot_st, rate)
        b == optimizer_update(opt, bm, lg.grads.beam, beam_st, rate)
        plr == pos_learning_rate(l, rate)
        x == optimizer_update(opt, pos, lg.grads.pos_list, pos_st, plr.value)
    IN  IF l \notin PositionLoops
        THEN Return([pot_slice |-> p.params, beam |-> b.params,
                     pos_list |-> pos, pot_slice_state |-> p.state,
                     beam_state |-> b.state, pos_state |-> pos_st,
                     loss |-> lg.loss])
        ELSE IF plr.exc # "none"
        THEN Raise(plr.exc)
        ELSE Return([pot_slice |-> p.params, beam |-> b.params,
                     pos_list |-> x.params, pot_slice_state |-> p.state,
                     beam_state |-> b.state, pos_state |-> x.state,
                     loss |-> lg.loss])

\* jnp.floor(num_iterations / save_every): the number of snapshot slots
\* (inverse.py:144, 318, 503, 658), taken as the integer it denotes.
num_slots(n, every) == n \div every

\* saver = jnp.floor(ii / save_every) (inverse.py:164, 354, 525, 680).
saver_of(i, every) == i \div every

\* jnp.zeros(shape=(.., .., slots)) (inverse.py:140-155): slot k is buf[k].
zeros(what, slots) == [k \in 0..(slots - 1) |-> <<"zeros", what>>]

\* buf.at[:, :, idx].set(val): a NEW array; an index outside the array is
\* dropped (JAX scatter semantics).  The statement itself is an expression.
at_set(buf, idx, val) ==
    IF idx \in DOMAIN buf THEN [buf EXCEPT ![idx] = val] ELSE buf

\* What the name `buf` is bound to after the statement
\* `buf.at[:, :, saver].set(val)` (inverse.py:165-166, 355-357, 526-527,
\* 681-682): the returned array is not assigned, so `buf` is unchanged.
after_at_set_statement(buf, idx, val) ==
    LET new_array == at_set(buf, idx, val) IN buf

\* len(jnp.array(learning_rate)) (inverse.py:291-293): a 0-d array has no len.
len(rate) == IF ndim(rate) = 0 THEN Raise("TypeError") ELSE Return(2)

takes_snapshot_late(i, every) == (i + 1) % every = 0

\* if ii % save_every == 0 (inverse.py:162, 352, 523, 678): the iterations
\* that report the loss and execute the snapshot statements.
takes_snapshot(i, every) == i % every = 0

\* for ii in range(num_iterations): the loop continues while ii < n.
range_has_next(i, n) == i < n

\* pte.CalibratedArray(data_array, calib_y, calib_x, real_space).
CalibratedArray(data_array, calib_y, calib_x, flag) ==
    [data_array |-> data_array, calib_y |-> calib_y, calib_x |-> calib_x,
     real_space |-> flag]

\* The arguments initial_potential and initial_beam of the calibrated loops.
initial_potential ==
    CalibratedArray(<<"initial_potential">>, <<"calib_y", "initial_potential">>,
                    <<"calib_x", "initial_potential">>, TRUE)
initial_beam(flag) ==
    CalibratedArray(<<"initial_beam">>, <<"calib_y", "initial_beam">>,
                    <<"calib_x", "initial_beam">>, flag)

\* The first beam estimate (inverse.py:123-127, 311, 496, 651): only
\* single_slice_ptychography looks at initial_beam.real_space.
first_beam(l, flag) ==
    IF l = "single_slice_ptychography" /\ ~flag
    THEN <<"ifft2", initial_beam(flag).data_array>>
    ELSE initial_beam(flag).data_array

final_container_same_flag(data_array, initial) ==
    CalibratedArray(data_array, initial.calib_y, initial.calib_x,
                    initial.real_space)

\* final_potential / final_beam (inverse.py:168-179, 359-370).
final_container(data_array, initial) ==
    CalibratedArray(data_array, initial.calib_y, initial.calib_x, TRUE)

\* The return statement of each loop (inverse.py:181, 371-378, 529, 684).
return_value(l, flag, pot, bm, pos, ipot, ibeam, ipos) ==
    CASE l = "single_slice_ptychography" ->
           <<final_container(pot, initial_potential),
             final_container(bm, initial_beam(flag)), ipot, ibeam>>
      [] l = "single_slice_poscorrected" ->
           <<final_container(pot, initial_potential),
             final_container(bm, initial_beam(flag)), pos, ipot, ibeam, ipos>>
      [] OTHER -> <<pot, bm, pos, ipot, ibeam>>

\* The shapes <<P, H, W>> of the measured data; the potential and the beam
\* are [H, W].  The images are square: the difference of the simulated and
\* the measured patterns (loss_functions.py:63) is then defined.
DataShapes == {<<1, 2, 2>>, <<2, 3, 3>>}

LoopInit ==
    /\ loop \in Loops
    /\ num_iterations \in 1..MaxIterations
    /\ save_every \in 1..MaxSaveEvery
    /\ learning_rate \in
         IF loop = "single_slice_poscorrected"
         THEN {ScalarRate, PairRate} ELSE {ScalarRate}
    /\ loss_type \in LossTypeInputs
    /\ optimizer_name \in OptimizerNameInputs
    /\ real_space \in
         IF loop \in CalibratedLoops THEN BOOLEAN ELSE {TRUE}
    /\ returned = None
    /\ pc = "start"
    /\ loss_func = None
    /\ optimizer = None
    /\ pot_slice_state = None
    /\ beam_state = None
    /\ pos_state = None
    /\ pot_slice = None
    /\ beam = None
    /\ pos_list = None
    /\ intermediate_potslice = None
    /\ intermediate_beam = None
    /\ intermediate_positions = None
    /\ ii = 0
    /\ loss = None
    /\ error = NoError
    /\ update_count = 0
    /\ forward_evals = 0
    /\ printed = <<>>
    /\ snap_log = <<>>
    /\ data_shape \in DataShapes
    /\ stem_4D_seen = None

ForwardIdle ==
    /\ f_pc = "idle"
    /\ f_pot = <<>>
    /\ f_beam = <<>>
    /\ f_pos = <<>>
    /\ slice_thickness = 0
    /\ wave = <<>>
    /\ slice_idx = 0
    /\ scan_log = <<>>
    /\ f_out = <<>>
    /\ voltage_kV = None
    /\ f_exc = "none"
    /\ image_size = None

Init == LoopInit /\ ForwardIdle

Fail(exc, by) ==
    /\ pc' = "error"
    /\ error' = <<exc, by>>

\* loss_func = ptt.create_loss_function(forward_fn, experimental_4dstem,
\* loss_type) (inverse.py:109, 273, 463, 618).
CreateLoss ==
    /\ pc = "start"
    /\ LET r == create_loss_function(forward_fn(loop),
                                     <<"experimental_4dstem">>, loss_type)
       IN  IF r.exc # "none"
           THEN /\ Fail(r.exc, "create_loss_function")
                /\ UNCHANGED loss_func
           ELSE /\ loss_func' = r.value
                /\ pc' = "loss_built"
                /\ UNCHANGED error
    /\ UNCHANGED stem_4D_seen
    /\ UNCHANGED <<data_shape, loop, num_iterations, save_every, learning_rate, loss_type,
                   optimizer_name, real_space, returned, optimizer, pot_slice_state, beam_state,
                   pos_state, pot_slice, beam, pos_list,
                   intermediate_potslice, intermediate_beam,
                   intermediate_positions, ii, loss, update_count,
                   forward_evals, printed, snap_log>>
    /\ UNCHANGED forward_vars

\* optimizer = get_optimizer(optimizer_name) and the optimizer.init calls
\* (inverse.py:118-120, 286-289, 476-479, 631-634).
GetOptimizer ==
    /\ pc = "loss_built"
    /\ LET r == get_optimizer(optimizer_name)
       IN  IF r.exc # "none"
           THEN /\ Fail(r.exc, "get_optimizer")
                /\ UNCHANGED <<optimizer, pot_slice_state, beam_state,
                               pos_state>>
           ELSE /\ optimizer' = r.value
                /\ pot_slice_state' =
                     optimizer_init(r.value, <<"shape", "initial_potential">>)
                /\ beam_state' =
                     optimizer_init(r.value, <<"shape", "initial_beam">>)
                /\ pos_state' =
                     IF loop \in PositionLoops
                     THEN optimizer_init(r.value,
                                         <<"shape", "initial_pos_list">>)
                     ELSE None
                /\ pc' = "optimizer_ready"
                /\ UNCHANGED error
    /\ UNCHANGED stem_4D_seen
    /\ UNCHANGED <<data_shape, loop, num_iterations, save_every, learning_rate, loss_type,
                   optimizer_name, real_space, returned, loss_func, pot_slice, beam, pos_list,
                   intermediate_potslice, intermediate_beam,
                   intermediate_positions, ii, loss, update_count,
                   forward_evals, printed, snap_log>>
    /\ UNCHANGED forward_vars

\* The rest of the set-up: the learning-rate array of
\* single_slice_poscorrected (inverse.py:291-294), the initial estimates
\* (122-127, 310-312, 495-497, 650-652) and the zero-filled snapshot buffers
\* (140-155, 314-337, 499-514, 654-669).
Prepare ==
    /\ pc = "optimizer_ready"
    /\ LET n == IF loop = "single_slice_poscorrected"
                THEN len(learning_rate) ELSE Return(0)
           slots == num_slots(num_iterations, save_every)
       IN  IF n.exc # "none"
           THEN /\ Fail(n.exc, "len")
                /\ UNCHANGED <<pot_slice, beam, pos_list,
                               intermediate_potslice, intermediate_beam,
                               intermediate_positions>>
           ELSE /\ pot_slice' = initial_potential.data_array
                /\ beam' = first_beam(loop, real_space)
                /\ pos_list' = <<"initial_pos_list">>
                /\ intermediate_potslice' = zeros("pot_slice", slots)
                /\ intermediate_beam' = zeros("beam", slots)
                /\ intermediate_positions' =
                     IF loop = "single_slice_poscorrected"
                     THEN zeros("pos_list", slots) ELSE None
                /\ pc' = "iterating"
                /\ UNCHANGED error
    /\ UNCHANGED stem_4D_seen
    /\ UNCHANGED <<data_shape, loop, num_iterations, save_every, learning_rate, loss_type,
                   optimizer_name, real_space, returned, loss_func, optimizer, pot_slice_state,
                   beam_state, pos_state, ii, loss, update_count,
                   forward_evals, printed, snap_log>>
    /\ UNCHANGED forward_vars

\* One pass through the body of `for ii in range(num_iterations)`
\* (inverse.py:157-166, 339-357, 516-527, 671-682): update_step, then, every
\* save_every-th iteration, the progress report and the snapshot statements.
Iterate ==
    /\ pc = "iterating"
    /\ range_has_next(ii, num_iterations)
    /\ forward_evals' = forward_evals + 1
    /\ LET r == update_step(loop, optimizer, loss_func, learning_rate,
                            pot_slice, beam, pos_list,
                            pot_slice_state, beam_state, pos_state)
           saver == saver_of(ii, save_every)
       IN  IF r.exc # "none"
           THEN /\ Fail(r.exc, "update_step")
                /\ UNCHANGED <<pot_slice, beam, pos_list, pot_slice_state,
                               beam_state, pos_state, loss, ii, update_count,
                               printed, snap_log, intermediate_potslice,
                               intermediate_beam, intermediate_positions>>
           ELSE /\ pot_slice' = r.value.pot_slice
                /\ beam' = r.value.beam
                /\ pos_list' = r.value.pos_list
                /\ pot_slice_state' = r.value.pot_slice_state
                /\ beam_state' = r.value.beam_state
                /\ pos_state' = r.value.pos_state
                /\ loss' = r.value.loss
                /\ update_count' = update_count + 1
                /\ ii' = ii + 1
                /\ UNCHANGED <<pc, error>>
                /\ IF takes_snapshot(ii, save_every)
                   THEN /\ printed' = Append(printed, <<ii, r.value.loss>>)
                        /\ snap_log' = Append(snap_log,
                               [ii |-> ii, saver |-> saver,
                                pot_slice |-> r.value.pot_slice,
                                beam |-> r.value.beam,
                                pos_list |-> r.value.pos_list])
                        /\ intermediate_potslice' =
                             after_at_set_statement(intermediate_potslice,
                                                    saver, r.value.pot_slice)
                        /\ intermediate_beam' =
                             after_at_set_statement(intermediate_beam,
                                                    saver, r.value.beam)
                        /\ intermediate_positions' =
                             IF loop = "single_slice_poscorrected"
                             THEN after_at_set_statement(
                                      intermediate_positions, saver,
                                      r.value.pos_list)
                             ELSE intermediate_positions
                   ELSE UNCHANGED <<printed, snap_log, intermediate_potslice,
                                    intermediate_beam, intermediate_positions>>
    /\ stem_4D_seen' = forward_fn_shapes(data_shape)
    /\ UNCHANGED <<data_shape, loop, num_iterations, save_every, learning_rate, loss_type,
                   optimizer_name, real_space, returned, loss_func, optimizer>>
    /\ UNCHANGED forward_vars

\* The loop is exhausted: the results are wrapped and returned
\* (inverse.py:168-181, 359-378, 529, 684).
Finalize ==
    /\ pc = "iterating"
    /\ ~range_has_next(ii, num_iterations)
    /\ returned' = return_value(loop, real_space, pot_slice, beam, pos_list,
                                intermediate_potslice, intermediate_beam,
                                intermediate_positions)
    /\ pc' = "done"
    /\ UNCHANGED stem_4D_seen
    /\ UNCHANGED <<data_shape, loop, num_iterations, save_every, learning_rate, loss_type,
                   optimizer_name, real_space, loss_func, optimizer, pot_slice_state,
                   beam_state, pos_state, pot_slice, beam, pos_list,
                   intermediate_potslice, intermediate_beam,
                   intermediate_positions, ii, loss, error, update_count,
                   forward_evals, printed, snap_log>>
    /\ UNCHANGED forward_vars

Next == CreateLoss \/ GetOptimizer \/ Prepare \/ Iterate \/ Finalize

Spec == Init /\ [][Next]_vars

(***************************************************************************)
(* PART 2.  The forward model (electrons/forward.py).                      *)
(*                                                                         *)
(* Fields live on an H x W pixel grid with H = W; a complex number is a    *)
(* pair <<re, im>> of integers.  The discrete Fourier transform of length  *)
(* N in {1, 2, 4} has its roots of unity among 1, i, -1, -i, so fft2 is    *)
(* exact.  The real parameters are taken on the lattice where every        *)
(* complex exponential of the code is a power of i:                        *)
(*   potentials   in units of pi / (2 sigma):  exp(i sigma v) = i^v;       *)
(*   positions    in units of H calib / 4:     the phase ramp of a shift   *)
(*                by (py, px) is i^-(ny py + nx px);                       *)
(*   thickness    in units of (H calib)^2 / (2 lambda): the propagation    *)
(*                kernel is i^-(t (ny^2 + nx^2));                          *)
(* with ny, nx the integer numerators of jnp.fft.fftfreq.  Beam amplitudes *)
(* are multiples of Scale, which makes the 1/(H W) of every ifft2 exact.   *)
(***************************************************************************)
\* The shape of every field: H, W = beam.shape[0], beam.shape[1].
H == 2
W == 2
Rows == 0..(H - 1)
Cols == 0..(W - 1)
Grid == Rows \X Cols

\* Complex arithmetic (jnp `+`, `*`, jnp.abs/jnp.square, jnp.exp(1j * ...)).
CAdd(a, b) == <<a[1] + b[1], a[2] + b[2]>>
CMul(a, b) == <<a[1] * b[1] - a[2] * b[2], a[1] * b[2] + a[2] * b[1]>>
CDivInt(a, n) == <<a[1] \div n, a[2] \div n>>
CAbs2(a) == a[1] * a[1] + a[2] * a[2]
\* exp(i (pi/2) k) = i^k.
PowersOfI == << <<1, 0>>, <<0, 1>>, <<-1, 0>>, <<0, -1>> >>
IPow(k) == PowersOfI[(k % 4) + 1]
\* a * i^k as a quarter-turn rotation of the pair (re, im).
CMulIPow(a, k) ==
    CASE k % 4 = 0 -> a
      [] k % 4 = 1 -> <<-a[2], a[1]>>
      [] k % 4 = 2 -> <<-a[1], -a[2]>>
      [] OTHER -> <<a[2], -a[1]>>

\* The pixels in row-major order, and the sum of f over the first n of them.
Pixel(n) == <<(n - 1) \div W, (n - 1) % W>>
RECURSIVE CSum(_, _)
CSum(f, n) ==
    IF n = 0 THEN <<0, 0>> ELSE CAdd(f[Pixel(n)], CSum(f, n - 1))

\* An array holds its elements: the function is evaluated once, when the
\* array is made, not at every later read.
Array(f) == f @@ <<>>

\* Elementwise product of two [H,W] arrays.
Times(a, b) == Array([p \in Grid |-> CMul(a[p], b[p])])

\* jnp.fft.fft2 / jnp.fft.ifft2 over axes (0, 1) of one [H,W] array:
\* exp(-2 pi i k n / N) = i^-((4/N) k n).
fft2(a) == Array(
    [k \in Grid |->
        CSum([p \in Grid |->
                CMulIPow(a[p], -((4 \div H) * k[1] * p[1]
                                 + (4 \div W) * k[2] * p[2]))], H * W)])
ifft2(a) == Array(
    [p \in Grid |->
        CDivInt(CSum([k \in Grid |->
                        CMulIPow(a[k], (4 \div H) * k[1] * p[1]
                                       + (4 \div W) * k[2] * p[2])], H * W),
                H * W)])

\* jnp.fft.fftshift over axes (0, 1): a roll by N // 2 along each axis.
fftshift(a) ==
    Array([k \in Grid |-> a[<<(k[1] + H - (H \div 2)) % H,
                              (k[2] + W - (W \div 2)) % W>>]])

\* jnp.fft.fftfreq(n, d)[k] = fftfreq_num(n, k) / (n d).
fftfreq_num(n, k) == IF k < (n + 1) \div 2 THEN k ELSE k - n

transmission_func_raw(pot) == pot

\* transmission_func (forward.py:21-72): exp(1j * sigma * pot_slice).
transmission_func(pot) == Array([p \in Grid |-> IPow(pot[p][1])])

\* propagation_func (forward.py:116-126): exp(-i pi lambda t (qx^2 + qy^2)).
propagation_func(thickness) == Array(
    [k \in Grid |->
        IPow(-(thickness * (fftfreq_num(H, k[1]) * fftfreq_num(H, k[1])
                            + fftfreq_num(W, k[2]) * fftfreq_num(W, k[2]))))])

\* apply_shift (forward.py:527-538), for one position and one mode.
phase_shift(position) == Array(
    [k \in Grid |-> IPow(-(fftfreq_num(H, k[1]) * position[1]
                           + fftfreq_num(W, k[2]) * position[2]))])
apply_shift_no_inverse(bm, position) ==
    Array([m \in 1..Len(bm) |-> Times(fft2(bm[m]), phase_shift(position))])

apply_shift(bm, position) ==
    Array([m \in 1..Len(bm) |->
              ifft2(Times(fft2(bm[m]), phase_shift(position)))])

\* shift_beam_fourier (forward.py:514-543): [P][M] arrays, position-major.
shift_beam_fourier(bm, pos) ==
    Array([i \in 1..Len(pos) |-> apply_shift(bm, pos[i])])

operand_overwritten(operand, result) == result

\* JAX arrays are immutable and init_wave is jnp.copy(beam) (forward.py:456):
\* `wave = wave * trans_slice[..., jnp.newaxis]` and propagate
\* (forward.py:462-470) make `result`, a new array bound to the local name
\* `wave`; the array `operand` the scan started from holds what it held.
operand_after(operand, result) == operand

is_last_never(idx, num_slices) == FALSE

\* is_last_slice (forward.py:469).
is_last_slice(idx, num_slices) == idx = num_slices - 1

\* lax.dynamic_slice_in_dim(pot_slice, slice_idx, 1, axis=2) and the squeeze
\* (forward.py:460-461); slices are numbered from 0.
trans_slice(pot, idx) == pot[idx + 1]

\* propagate (forward.py:464-467), for one mode.
propagate(w, thickness) ==
    ifft2(Times(fft2(w), propagation_func(thickness)))

\* scan_fn (forward.py:458-471): the carry after slice idx.
scan_fn(pot, thickness, carry, idx) ==
    LET multiplied == Array([m \in 1..Len(carry) |->
                                Times(carry[m], trans_slice(pot, idx))])
    IN  IF is_last_slice(idx, Len(pot))
        THEN multiplied
        ELSE Array([m \in 1..Len(carry) |->
                       propagate(multiplied[m], thickness)])

\* lax.scan(scan_fn, init_wave, jnp.arange(num_slices)) (forward.py:473).
RECURSIVE lax_scan(_, _, _, _)
lax_scan(pot, thickness, carry, idx) ==
    IF idx >= Len(pot) THEN carry
    ELSE lax_scan(pot, thickness, scan_fn(pot, thickness, carry, idx), idx + 1)

RECURSIVE SumModes(_, _)
SumModes(intensity, m) ==
    IF m = 0 THEN Array([k \in Grid |-> 0])
    ELSE LET rest == SumModes(intensity, m - 1)
         IN  Array([k \in Grid |-> rest[k] + intensity[m][k]])

cbed_output_coherent(final_wave) ==
    LET far == Array([m \in 1..Len(final_wave) |->
                         fftshift(fft2(final_wave[m]))])
        RECURSIVE Amplitude(_, _)
        Amplitude(k, m) ==
            IF m = 0 THEN <<0, 0>> ELSE CAdd(far[m][k], Amplitude(k, m - 1))
        amplitude == Array([k \in Grid |-> Amplitude(k, Len(final_wave))])
    IN  Array([k \in Grid |-> CAbs2(amplitude[k])])

\* The far field of cbed (forward.py:474-478): fftshift(fft2(final_wave)),
\* squared magnitude, summed over the mode axis.
cbed_output(final_wave) ==
    LET fourier_space_pattern ==
            Array([m \in 1..Len(final_wave) |->
                      fftshift(fft2(final_wave[m]))])
        intensity_per_mode ==
            Array([m \in 1..Len(final_wave) |->
                      Array([k \in Grid |->
                                CAbs2(fourier_space_pattern[m][k])])])
    IN  SumModes(intensity_per_mode, Len(final_wave))

\* cbed (forward.py:449-480).
cbed(pot, bm, thickness) == cbed_output(lax_scan(pot, thickness, bm, 0))

process_first_position(pot, shifted_beams, thickness, pos_idx) ==
    cbed(pot, shifted_beams[1], thickness)

\* process_single_position (forward.py:595-606).
process_single_position(pot, shifted_beams, thickness, pos_idx) ==
    cbed(pot, shifted_beams[pos_idx], thickness)

\* stem_4D (forward.py:591-611).
stem_4D(pot, bm, positions, thickness) ==
    LET shifted_beams == shift_beam_fourier(bm, positions)
    IN  Array([i \in 1..Len(positions) |->
                  process_single_position(pot, shifted_beams, thickness, i)])

(***************************************************************************)
(* The voltage-dependent scalars.  A float is modelled by its class: NaN,  *)
(* an infinity, zero, or a finite value of either sign; the operations     *)
(* follow IEEE-754 as jax.numpy does, where no operation raises.           *)
(* Energies are in keV, so that e * voltage is voltage_kV.                 *)
(***************************************************************************)
FClasses == {"nan", "neg_inf", "neg", "zero", "pos", "pos_inf"}
FSign(n) == IF n < 0 THEN "neg" ELSE IF n = 0 THEN "zero" ELSE "pos"
FNegative(a) == a \in {"neg", "neg_inf"}
FInfinite(a) == a \in {"neg_inf", "pos_inf"}
FSigned(negative, infinite) ==
    IF infinite THEN (IF negative THEN "neg_inf" ELSE "pos_inf")
    ELSE (IF negative THEN "neg" ELSE "pos")

\* a * b (jnp.multiply): inf * 0 is NaN.
FMul(a, b) ==
    IF a = "nan" \/ b = "nan" THEN "nan"
    ELSE IF a = "zero" \/ b = "zero"
         THEN (IF FInfinite(a) \/ FInfinite(b) THEN "nan" ELSE "zero")
         ELSE FSigned(FNegative(a) # FNegative(b),
                      FInfinite(a) \/ FInfinite(b))

\* a / b: x / 0 is an infinity for x # 0; 0 / 0 and inf / inf are NaN.
FDiv(a, b) ==
    IF a = "nan" \/ b = "nan" THEN "nan"
    ELSE IF b = "zero"
         THEN (IF a = "zero" THEN "nan" ELSE FSigned(FNegative(a), TRUE))
         ELSE IF FInfinite(b)
              THEN (IF FInfinite(a) THEN "nan" ELSE "zero")
              ELSE IF a = "zero" THEN "zero"
                   ELSE FSigned(FNegative(a) # FNegative(b), FInfinite(a))

\* jnp.sqrt: NaN for a negative argument.
FSqrt(a) == IF a = "nan" \/ FNegative(a) THEN "nan" ELSE a

\* jnp.exp(1j * x): finite for finite x, NaN otherwise.
FExpI(a) == IF a \in {"neg", "zero", "pos"} THEN "finite" ELSE "nan"

\* m c^2 in keV (m_e, c and e_e of forward.py).
RestEnergy_keV == 511

wavelength_ang_checked(voltage) ==
    IF voltage <= 0 THEN Raise("ValueError") ELSE Return("pos")

\* wavelength_ang (forward.py:387-399): sqrt(h^2 c^2 / (eV (2 m c^2 + eV))).
wavelength_ang(voltage) ==
    LET eV == FSign(voltage)
        numerator == "pos"
        denominator == FMul(eV, FSign(2 * RestEnergy_keV + voltage))
        wavelength_meters == FSqrt(FDiv(numerator, denominator))
    IN  Return(FMul("pos", wavelength_meters))

\* transmission_func (forward.py:59-72) at a given voltage: the class of
\* each pixel of exp(1j * sigma * pot_slice).
transmission_func_at(pot, voltage) ==
    LET volts == FSign(voltage)
        eV == FSign(voltage)
        lambda_angstrom == wavelength_ang(voltage)
        einstein_plus_eV == FSign(RestEnergy_keV + voltage)
        twice_einstein_plus_eV == FSign(2 * RestEnergy_keV + voltage)
        sigma == FDiv(FMul(FDiv("pos", FMul(lambda_angstrom.value, volts)),
                           einstein_plus_eV),
                      twice_einstein_plus_eV)
    IN  IF lambda_angstrom.exc # "none"
        THEN Raise(lambda_angstrom.exc)
        ELSE Return([p \in Grid |-> FExpI(FMul(sigma, FSign(pot[p][1])))])

(***************************************************************************)
(* The value of the wavelength.  A positive real is held exactly: a        *)
(* natural number of any size is the sequence of its base-10000 limbs,     *)
(* least significant first (<<>> is 0), a decimal is m * 10^e, and a       *)
(* float64 is a class with, for a finite positive value, a quotient of two *)
(* decimals.  An operation rounds as float64 does at the ends of its       *)
(* range: a result above the largest finite float64 is +inf, a result not  *)
(* above half the smallest subnormal is 0, and a sum with an addend below  *)
(* half a unit in the last place of the other is the other.  Apart from    *)
(* that the value is kept exact; the rounding of float64 there is at most  *)
(* one part in 2^53 per operation.                                         *)
(***************************************************************************)
RECURSIVE BigOfNat(_)
BigOfNat(n) == IF n = 0 THEN <<>> ELSE <<n % 10000>> \o BigOfNat(n \div 10000)

Limb(a, i) == IF i <= Len(a) THEN a[i] ELSE 0

RECURSIVE BigAddFrom(_, _, _, _)
BigAddFrom(a, b, i, carry) ==
    IF i > Len(a) /\ i > Len(b)
    THEN (IF carry = 0 THEN <<>> ELSE <<carry>>)
    ELSE LET s == Limb(a, i) + Limb(b, i) + carry
         IN  <<s % 10000>> \o BigAddFrom(a, b, i + 1, s \div 10000)
BigAdd(a, b) == BigAddFrom(a, b, 1, 0)

\* a * d for one limb d.
RECURSIVE BigScaleFrom(_, _, _, _)
BigScaleFrom(a, d, i, carry) ==
    IF i > Len(a) THEN BigOfNat(carry)
    ELSE LET s == a[i] * d + carry
         IN  <<s % 10000>> \o BigScaleFrom(a, d, i + 1, s \div 10000)
BigScale(a, d) == IF d = 0 THEN <<>> ELSE BigScaleFrom(a, d, 1, 0)

\* a * 10000^k.
BigShift(a, k) == IF a = <<>> THEN <<>> ELSE [i \in 1..k |-> 0] \o a

RECURSIVE BigMulFrom(_, _, _)
BigMulFrom(a, b, i) ==
    IF i > Len(b) THEN <<>>
    ELSE BigAdd(BigShift(BigScale(a, b[i]), i - 1), BigMulFrom(a, b, i + 1))
BigMul(a, b) ==
    IF Len(a) < Len(b) THEN BigMulFrom(b, a, 1) ELSE BigMulFrom(a, b, 1)

RECURSIVE BigLessFrom(_, _, _)
BigLessFrom(a, b, i) ==
    IF i = 0 THEN FALSE
    ELSE IF a[i] # b[i] THEN a[i] < b[i] ELSE BigLessFrom(a, b, i - 1)
BigLess(a, b) ==
    IF Len(a) # Len(b) THEN Len(a) < Len(b) ELSE BigLessFrom(a, b, Len(a))

\* The number of decimal digits of a.
BigDigits(a) ==
    IF a = <<>> THEN 0
    ELSE 4 * (Len(a) - 1)
         + (IF a[Len(a)] < 10 THEN 1 ELSE IF a[Len(a)] < 100 THEN 2
            ELSE IF a[Len(a)] < 1000 THEN 3 ELSE 4)

\* a * 10^k.
BigTimesPow10(a, k) == BigShift(BigScale(a, 10 ^ (k % 4)), k \div 4)

\* The decimal n * 10^e, and the arithmetic of decimals.
Dec(n, e) == [m |-> BigOfNat(n), e |-> e]
DecAlign(x, e) == BigTimesPow10(x.m, x.e - e)
DecMul(x, y) == [m |-> BigMul(x.m, y.m), e |-> x.e + y.e]
DecAdd(x, y) ==
    LET e == IF x.e < y.e THEN x.e ELSE y.e
    IN  [m |-> BigAdd(DecAlign(x, e), DecAlign(y, e)), e |-> e]
\* floor(log10 x) of a positive decimal.
DecOrder(x) == BigDigits(x.m) - 1 + x.e
DecLess(x, y) ==
    IF y.m = <<>> THEN FALSE
    ELSE IF x.m = <<>> THEN TRUE
    ELSE IF DecOrder(x) # DecOrder(y) THEN DecOrder(x) < DecOrder(y)
    ELSE LET e == IF x.e < y.e THEN x.e ELSE y.e
         IN  BigLess(DecAlign(x, e), DecAlign(y, e))

\* The ends of the range of float64: the largest finite value (about
\* 1.7976931348623158e308) and half the smallest subnormal (2^-1075, about
\* 2.47032823e-324).
LargestFloat64 == [m |-> <<3158, 4862, 9313, 7976, 1>>, e |-> 292]
HalfSmallestFloat64 == Dec(247032823, -332)

\* The float64 nearest to num / den, for positive num and den.
Float64(num, den) ==
    IF DecLess(DecMul(LargestFloat64, den), num)
    THEN [class |-> "pos_inf", num |-> Dec(0, 0), den |-> Dec(1, 0)]
    ELSE IF ~DecLess(DecMul(HalfSmallestFloat64, den), num)
    THEN [class |-> "zero", num |-> Dec(0, 0), den |-> Dec(1, 0)]
    ELSE [class |-> "pos", num |-> num, den |-> den]
Float64Of(class) == [class |-> class, num |-> Dec(0, 0), den |-> Dec(1, 0)]

\* jnp.multiply, `+` and `/` on non-negative float64 values.
Float64Mul(a, b) ==
    IF a.class = "pos" /\ b.class = "pos"
    THEN Float64(DecMul(a.num, b.num), DecMul(a.den, b.den))
    ELSE Float64Of(FMul(a.class, b.class))
\* a < b * 1e-20: added to b, a is less than half a unit in the last place
\* of b (2^-53 b), and the float64 sum is b itself.
Float64Absorbed(a, b) ==
    DecLess(DecMul(DecMul(a.num, b.den), Dec(1, 20)), DecMul(b.num, a.den))
Float64Add(a, b) ==
    IF a.class = "pos" /\ b.class = "pos"
    THEN IF Float64Absorbed(a, b) THEN b
         ELSE IF Float64Absorbed(b, a) THEN a
         ELSE Float64(DecAdd(DecMul(a.num, b.den), DecMul(b.num, a.den)),
                      DecMul(a.den, b.den))
    ELSE IF a.class = "zero" THEN b
    ELSE IF b.class = "zero" THEN a
    ELSE IF "nan" \in {a.class, b.class} THEN Float64Of("nan")
    ELSE Float64Of("pos_inf")
Float64Div(a, b) ==
    IF a.class = "pos" /\ b.class = "pos"
    THEN Float64(DecMul(a.num, b.den), DecMul(a.den, b.num))
    ELSE Float64Of(FDiv(a.class, b.class))

\* The float64 of a positive decimal literal or argument.
Float64Const(n, e) == Float64(Dec(n, e), Dec(1, 0))

\* Variants of wavelength_ang: without the relativistic term `+ eV` of the
\* denominator, or with numerator and denominator exchanged.
wavelength_ang_value_variant(voltage, relativistic, exchanged) ==
    LET m == Float64Const(9109383, -37)
        e == Float64Const(1602177, -25)
        c == Float64Const(299792458, 0)
        h == Float64Const(662607, -39)
        eV == Float64Mul(Float64Mul(Float64(voltage, Dec(1, 0)),
                                    Float64Const(1000, 0)), e)
        numerator == Float64Mul(Float64Mul(h, h), Float64Mul(c, c))
        rest == Float64Mul(Float64Mul(Float64Const(2, 0), m),
                           Float64Mul(c, c))
        denominator ==
            Float64Mul(eV, IF relativistic THEN Float64Add(rest, eV) ELSE rest)
        ratio == IF exchanged THEN Float64Div(denominator, numerator)
                 ELSE Float64Div(numerator, denominator)
    IN  [class |-> ratio.class,
         sq_num |-> DecMul(ratio.num, Dec(1, 20)),
         sq_den |-> ratio.den]

wavelength_ang_value_classical(voltage) ==
    wavelength_ang_value_variant(voltage, FALSE, FALSE)

wavelength_ang_value_exchanged(voltage) ==
    wavelength_ang_value_variant(voltage, TRUE, TRUE)

\* wavelength_ang (forward.py:387-399) for a positive voltage given as a
\* decimal number of kV.  The result is the class of the returned float64
\* and, when it is finite and positive, its square sq_num / sq_den in
\* angstrom^2: jnp.sqrt and the factor 1e10 keep a float64 inside the range.
wavelength_ang_value(voltage) ==
    LET m == Float64Const(9109383, -37)
        e == Float64Const(1602177, -25)
        c == Float64Const(299792458, 0)
        h == Float64Const(662607, -39)
        eV == Float64Mul(Float64Mul(Float64(voltage, Dec(1, 0)),
                                    Float64Const(1000, 0)), e)
        numerator == Float64Mul(Float64Mul(h, h), Float64Mul(c, c))
        denominator ==
            Float64Mul(eV,
                       Float64Add(Float64Mul(Float64Mul(Float64Const(2, 0), m),
                                             Float64Mul(c, c)),
                                  eV))
        wavelength_meters_squared == Float64Div(numerator, denominator)
    IN  [class |-> wavelength_meters_squared.class,
         sq_num |-> DecMul(wavelength_meters_squared.num, Dec(1, 20)),
         sq_den |-> wavelength_meters_squared.den]

(***************************************************************************)
(* The frequency grids, for any image size.  A frequency along an axis of  *)
(* n pixels is held as its integer numerator, in units of 1 / (n calib).   *)
(* Arrays are indexed from 0, as in the code.                              *)
(***************************************************************************)
fftfreq_centred(n) == [k \in 0..(n - 1) |-> k - (n \div 2)]

\* jnp.fft.fftfreq(n, d=calib_ang) (forward.py:116-117, 520-521).
fftfreq(n) == [k \in 0..(n - 1) |-> fftfreq_num(n, k)]

\* jnp.meshgrid(a, b) with the default indexing "xy": two arrays of shape
\* [len(b), len(a)], the first holding a along axis 1, the second b along
\* axis 0.
meshgrid_xy(a, b) ==
    LET idx == (DOMAIN b) \X (DOMAIN a)
    IN  << [p \in idx |-> a[p[2]]], [p \in idx |-> b[p[1]]] >>

\* jnp.meshgrid(a, b, indexing="ij"): two arrays of shape [len(a), len(b)],
\* the first holding a along axis 0, the second b along axis 1.
meshgrid_ij(a, b) ==
    LET idx == (DOMAIN a) \X (DOMAIN b)
    IN  << [p \in idx |-> a[p[1]]], [p \in idx |-> b[p[2]]] >>

\* propagation_func (forward.py:116-126) for an image of any size.  L_sq and
\* the phase are held in units of 1 / (imsize_y imsize_x calib)^2; `prop` is
\* exp(i phase) when the wavelength is finite and NaN otherwise.
propagation_func_sized(imsize_y, imsize_x, thickness, voltage) ==
    LET qy == fftfreq(imsize_y)
        qx == fftfreq(imsize_x)
        g == meshgrid_ij(qy, qx)
        Lya == g[1]
        Lxa == g[2]
        L_sq == [p \in DOMAIN Lya |->
                    Lxa[p] * Lxa[p] * imsize_y * imsize_y
                    + Lya[p] * Lya[p] * imsize_x * imsize_x]
        lambda_angstrom == wavelength_ang(voltage)
        class == [p \in DOMAIN Lya |->
                     FExpI(FMul(FMul("neg", lambda_angstrom.value),
                                FSign(thickness * L_sq[p])))]
    IN  IF lambda_angstrom.exc # "none"
        THEN Raise(lambda_angstrom.exc)
        ELSE Return([Lya |-> Lya, Lxa |-> Lxa,
                     prop |-> [p \in DOMAIN Lya |->
                                  IF class[p] = "finite"
                                  THEN <<"exp_i", -(thickness * L_sq[p])>>
                                  ELSE <<"nan">>]])

\* The frequency grid of shift_beam_fourier (forward.py:517-524) for a beam
\* of shape [num_rows, num_cols].
shift_beam_fourier_grid(num_rows, num_cols) ==
    LET qy == fftfreq(num_rows)
        qx == fftfreq(num_cols)
        g == meshgrid_ij(qy, qx)
    IN  [qya |-> g[1], qxa |-> g[2]]

\* jnp.arange(-n / 2, n / 2, 1) (forward.py:169, 172, 290, 292): the n values
\* -n/2 + k.  For odd n they are half-integers, so each is held doubled: the
\* numerator in units of 1 / (2 n calib).
arange_centred(n) == [k \in 0..(n - 1) |-> 2 * k - n]

\* jnp.roll(a, shift) (forward.py:176-177, 294-295): the element at index k
\* moves to index (k + shift) % n.
roll(a, shift) ==
    LET n == Cardinality(DOMAIN a)
    IN  [k \in DOMAIN a |-> a[(k + n - (shift % n)) % n]]

\* fourier_coords (forward.py:167-191) for a scalar calibration; image_size
\* is <<H, W>>.  The meshgrid arrays hold doubled numerators, inv_squared is
\* in units of 1 / (2 H W calib)^2, and the out-of-range index 1 of a
\* one-element array is clamped to 0.
fourier_coords(size) ==
    LET inverse_arr_y == arange_centred(size[1])
        inverse_arr_x == arange_centred(size[2])
        shifter_y == size[1] \div 2
        shifter_x == size[2] \div 2
        inverse_shifted_y == roll(inverse_arr_y, shifter_y)
        inverse_shifted_x == roll(inverse_arr_x, shifter_x)
        g == meshgrid_xy(inverse_shifted_x, inverse_shifted_y)
        inverse_xx == g[1]
        inverse_yy == g[2]
        clamp(n) == IF n > 1 THEN 1 ELSE 0
    IN  [inverse_yy |-> inverse_yy,
         inverse_xx |-> inverse_xx,
         inv_squared |-> [p \in DOMAIN inverse_yy |->
                             inverse_yy[p] * inverse_yy[p] * size[2] * size[2]
                             + inverse_xx[p] * inverse_xx[p] * size[1] * size[1]],
         calib_y |-> inverse_arr_y[clamp(size[1])] - inverse_arr_y[0],
         calib_x |-> inverse_arr_x[clamp(size[2])] - inverse_arr_x[0],
         real_space |-> FALSE]

\* The frequency grid of make_probe (forward.py:286-297); image_size is
\* <<image_y, image_x>>.  The first array of the meshgrid, which the code
\* names Lya, holds the x frequencies.
make_probe_grid(size) ==
    LET image_y == size[1]
        image_x == size[2]
        qx == arange_centred(image_x)
        x_shifter == image_x \div 2
        qy == arange_centred(image_y)
        y_shifter == image_y \div 2
        Lx == roll(qx, x_shifter)
        Ly == roll(qy, y_shifter)
        g == meshgrid_xy(Lx, Ly)
        Lya == g[1]
        Lxa == g[2]
    IN  [Lya |-> Lya, Lxa |-> Lxa,
         L2 |-> [p \in DOMAIN Lya |->
                    Lxa[p] * Lxa[p] * image_x * image_x
                    + Lya[p] * Lya[p] * image_y * image_y]]

(***************************************************************************)
(* Inputs of the forward model.                                            *)
(***************************************************************************)
\* Positive accelerating voltages <<n, x>>, standing for n * 10^x kV: the
\* voltages of electron microscopes and of the tests, and positive float64
\* values far below and far above them.
VoltageValues ==
    {<<1, -310>>, <<1, -300>>, <<1, -270>>, <<1, -3>>, <<200, 0>>, <<300, 0>>,
     <<1000, 0>>, <<1, 140>>, <<1, 200>>}

\* Image sizes, odd and even.
Sizes == 1..MaxSize

\* Accelerating voltages in kV, valid and invalid.
Voltages == {-2000, -100, 0, 100, 300}

Scale == (H * W) ^ MaxSlices

ZeroPot == [p \in Grid |-> <<0, 0>>]
PhasePot == [p \in Grid |-> <<p[1] + 2 * p[2] - 1, 0>>]
PotSlices == {ZeroPot, PhasePot}

DeltaBeam == [p \in Grid |-> IF p = <<0, 0>> THEN <<Scale, 0>> ELSE <<0, 0>>]
MixedBeam == [p \in Grid |-> <<Scale * (1 + p[1]), Scale * p[2]>>]
BeamModes == {DeltaBeam, MixedBeam}

Positions == {<<1, 0>>, <<2, 3>>}
\* The displacements of a direct call of shift_beam_fourier, and -d.
ShiftPositions == Positions \cup {<<0, 0>>}
Neg(d) == <<-d[1], -d[2]>>
Thicknesses == {1, 2}

\* All sequences over S of length 1..n.
SeqsUpTo(S, n) == UNION {[1..k -> S] : k \in 1..n}

\* The loop variables are not used by the forward model's specification.
LoopIdle ==
    /\ loop = "single_slice_ptychography"
    /\ num_iterations = 1
    /\ save_every = 1
    /\ learning_rate = ScalarRate
    /\ loss_type = "mse"
    /\ optimizer_name = "adam"
    /\ real_space = TRUE
    /\ returned = None
    /\ pc = "idle"
    /\ loss_func = None /\ optimizer = None
    /\ pot_slice_state = None /\ beam_state = None /\ pos_state = None
    /\ pot_slice = None /\ beam = None /\ pos_list = None
    /\ intermediate_potslice = None /\ intermediate_beam = None
    /\ intermediate_positions = None
    /\ ii = 0 /\ loss = None /\ error = NoError
    /\ update_count = 0 /\ forward_evals = 0
    /\ printed = <<>> /\ snap_log = <<>>
    /\ data_shape = <<1, 2, 2>> /\ stem_4D_seen = None

\* A call of cbed: the arguments are bound and the scan starts from
\* init_wave = jnp.copy(beam) (forward.py:449-456).
CallCbed ==
    /\ f_pc = "idle"
    /\ \E pot \in SeqsUpTo(PotSlices, MaxSlices),
          bm \in SeqsUpTo(BeamModes, MaxModes),
          t \in Thicknesses :
          /\ f_pot' = pot
          /\ f_beam' = bm
          /\ slice_thickness' = t
          /\ wave' = bm
    /\ f_pos' = <<>>
    /\ slice_idx' = 0
    /\ scan_log' = <<>>
    /\ f_out' = <<>>
    /\ f_pc' = "scan"
    /\ UNCHANGED <<voltage_kV, f_exc, image_size>>
    /\ UNCHANGED loop_vars

\* One step of lax.scan over jnp.arange(num_slices) (forward.py:458-473).
ScanStep ==
    /\ f_pc = "scan"
    /\ slice_idx < Len(f_pot)
    /\ wave' = scan_fn(f_pot, slice_thickness, wave, slice_idx)
    /\ scan_log' = Append(scan_log,
                          [slice_idx |-> slice_idx,
                           carry_in |-> wave,
                           carry_out |-> wave',
                           propagated |-> ~is_last_slice(slice_idx, Len(f_pot))])
    /\ slice_idx' = slice_idx + 1
    /\ f_beam' = operand_after(f_beam, wave')
    /\ UNCHANGED <<f_pc, f_pot, f_pos, slice_thickness, f_out>>
    /\ UNCHANGED <<voltage_kV, f_exc, image_size>>
    /\ UNCHANGED loop_vars

\* The scan is over: the diffraction pattern is formed and returned
\* (forward.py:473-480).
CbedReturn ==
    /\ f_pc = "scan"
    /\ slice_idx >= Len(f_pot)
    /\ f_out' = cbed_output(wave)
    /\ f_pc' = "cbed_done"
    /\ UNCHANGED <<f_pot, f_beam, f_pos, slice_thickness, wave, slice_idx,
                   scan_log>>
    /\ UNCHANGED <<voltage_kV, f_exc, image_size>>
    /\ UNCHANGED loop_vars

\* A call of stem_4D: the arguments are bound (forward.py:547-553).
CallStem4D ==
    /\ f_pc = "idle"
    /\ \E pot \in SeqsUpTo(PotSlices, MaxSlices),
          bm \in SeqsUpTo(BeamModes, MaxModes),
          positions \in SeqsUpTo(Positions, MaxPositions),
          t \in Thicknesses :
          /\ f_pot' = pot
          /\ f_beam' = bm
          /\ f_pos' = positions
          /\ slice_thickness' = t
    /\ f_pc' = "stem"
    /\ UNCHANGED <<wave, slice_idx, scan_log, f_out>>
    /\ UNCHANGED <<voltage_kV, f_exc, image_size>>
    /\ UNCHANGED loop_vars

\* The body of stem_4D runs and the 4D data set is returned
\* (forward.py:591-611).
Stem4DReturn ==
    /\ f_pc = "stem"
    /\ f_out' = stem_4D(f_pot, f_beam, f_pos, slice_thickness)
    /\ f_pc' = "stem_done"
    /\ UNCHANGED <<f_pot, f_beam, f_pos, slice_thickness, wave, slice_idx,
                   scan_log>>
    /\ UNCHANGED <<voltage_kV, f_exc, image_size>>
    /\ UNCHANGED loop_vars

\* A call of shift_beam_fourier: the arguments are bound
\* (forward.py:483-487).
CallShiftBeamFourier ==
    /\ f_pc = "idle"
    /\ \E bm \in SeqsUpTo(BeamModes, MaxModes),
          positions \in SeqsUpTo(ShiftPositions, MaxPositions) :
          /\ f_beam' = bm
          /\ f_pos' = positions
    /\ f_pc' = "shift"
    /\ UNCHANGED <<f_pot, slice_thickness, wave, slice_idx, scan_log, f_out>>
    /\ UNCHANGED <<voltage_kV, f_exc, image_size>>
    /\ UNCHANGED loop_vars

\* The body of shift_beam_fourier runs and all_shifted_beams is returned
\* (forward.py:514-543).
ShiftBeamFourierReturn ==
    /\ f_pc = "shift"
    /\ f_out' = shift_beam_fourier(f_beam, f_pos)
    /\ f_pc' = "shift_done"
    /\ UNCHANGED <<f_pot, f_beam, f_pos, slice_thickness, wave, slice_idx,
                   scan_log>>
    /\ UNCHANGED <<voltage_kV, f_exc, image_size>>
    /\ UNCHANGED loop_vars

\* A call of wavelength_ang (forward.py:358-399), as one step.
CallWavelengthAng ==
    /\ f_pc = "idle"
    /\ \E v \in Voltages :
          LET r == wavelength_ang(v)
          IN  /\ voltage_kV' = v
              /\ f_exc' = r.exc
              /\ f_out' = r.value
    /\ f_pc' = "wavelength_done"
    /\ UNCHANGED <<f_pot, f_beam, f_pos, slice_thickness, wave, slice_idx,
                   scan_log, image_size>>
    /\ UNCHANGED loop_vars

\* A call of transmission_func (forward.py:21-72), as one step.
CallTransmissionFunc ==
    /\ f_pc = "idle"
    /\ \E pot \in PotSlices, v \in Voltages :
          LET r == transmission_func_at(pot, v)
          IN  /\ f_pot' = <<pot>>
              /\ voltage_kV' = v
              /\ f_exc' = r.exc
              /\ f_out' = r.value
    /\ f_pc' = "transmission_done"
    /\ UNCHANGED <<f_beam, f_pos, slice_thickness, wave, slice_idx, scan_log,
                   image_size>>
    /\ UNCHANGED loop_vars

\* A call of propagation_func (forward.py:76-126), as one step.
CallPropagationFunc ==
    /\ f_pc = "idle"
    /\ \E imsize_y \in Sizes, imsize_x \in Sizes, t \in Thicknesses,
          v \in Voltages :
          LET r == propagation_func_sized(imsize_y, imsize_x, t, v)
          IN  /\ image_size' = <<imsize_y, imsize_x>>
              /\ slice_thickness' = t
              /\ voltage_kV' = v
              /\ f_exc' = r.exc
              /\ f_out' = r.value
    /\ f_pc' = "propagation_done"
    /\ UNCHANGED <<f_pot, f_beam, f_pos, wave, slice_idx, scan_log>>
    /\ UNCHANGED loop_vars

\* A call of fourier_coords (forward.py:129-191), as one step.
CallFourierCoords ==
    /\ f_pc = "idle"
    /\ \E num_rows \in Sizes, num_cols \in Sizes :
          /\ image_size' = <<num_rows, num_cols>>
          /\ f_out' = fourier_coords(<<num_rows, num_cols>>)
    /\ f_exc' = "none"
    /\ f_pc' = "fourier_coords_done"
    /\ UNCHANGED <<f_pot, f_beam, f_pos, slice_thickness, wave, slice_idx,
                   scan_log, voltage_kV>>
    /\ UNCHANGED loop_vars

\* A call of wavelength_ang (forward.py:358-399) with a positive voltage,
\* as one step; the returned value is computed, not only its class.
CallWavelengthAngValue ==
    /\ f_pc = "idle"
    /\ \E v \in VoltageValues :
          /\ voltage_kV' = v
          /\ f_out' = wavelength_ang_value(Dec(v[1], v[2]))
    /\ f_exc' = "none"
    /\ f_pc' = "wavelength_value_done"
    /\ UNCHANGED <<f_pot, f_beam, f_pos, slice_thickness, wave, slice_idx,
                   scan_log, image_size>>
    /\ UNCHANGED loop_vars

NextForward ==
    \/ CallCbed \/ ScanStep \/ CbedReturn
    \/ CallStem4D \/ Stem4DReturn
    \/ CallShiftBeamFourier \/ ShiftBeamFourierReturn
    \/ CallWavelengthAng \/ CallTransmissionFunc
    \/ CallPropagationFunc \/ CallWavelengthAngValue
    \/ CallFourierCoords

InitForward == ForwardIdle /\ LoopIdle

SpecForward == InitForward /\ [][NextForward]_vars

(***************************************************************************)
(* PART 3.  The claims.                                                    *)
(***************************************************************************)
Terminated == pc \in {"done", "error"}

ValidConfiguration ==
    /\ optimizer_name \in DOMAIN OPTIMIZERS
    /\ loss_type \in DOMAIN loss_functions
    /\ num_iterations >= 1
    /\ save_every >= 1

\* C1: when a reconstruction loop has returned, for every iteration ii with
\* ii % save_every = 0 the returned snapshot buffers hold, at slot
\* floor(ii / save_every), the potential and the beam (and, in
\* single_slice_poscorrected, the positions) produced by that iteration's
\* update.
C1_SnapshotsRecorded ==
    pc = "done" =>
        \A k \in 1..Len(snap_log) :
            LET e == snap_log[k]
            IN  /\ e.saver \in DOMAIN intermediate_potslice
                /\ intermediate_potslice[e.saver] = e.pot_slice
                /\ e.saver \in DOMAIN intermediate_beam
                /\ intermediate_beam[e.saver] = e.beam
                /\ loop = "single_slice_poscorrected" =>
                       /\ e.saver \in DOMAIN intermediate_positions
                       /\ intermediate_positions[e.saver] = e.pos_list

\* C2: every snapshot index floor(ii / save_every) used by the loop is
\* strictly smaller than the number of slots the snapshot buffers were
\* allocated with, floor(num_iterations / save_every).
C2_SnapshotIndexInBounds ==
    \A k \in 1..Len(snap_log) :
        /\ snap_log[k].saver < num_slots(num_iterations, save_every)
        /\ snap_log[k].saver \in DOMAIN intermediate_potslice
        /\ snap_log[k].saver \in DOMAIN intermediate_beam

\* C3: with a valid configuration each reconstruction loop runs exactly
\* num_iterations update steps and then finalizes: a call that has ended has
\* returned (it did not fail), it returns only after the last iteration, and
\* it never runs more than num_iterations update steps.
C3_ExactlyNumIterations ==
    ValidConfiguration =>
        /\ update_count <= num_iterations
        /\ pc = "done" => update_count = num_iterations /\ ii = num_iterations
        /\ Terminated => pc = "done"

\* C4: in all four loops an unregistered optimizer_name makes the call fail
\* with the ValueError of get_optimizer before any optimizer state is
\* initialised and before any iteration runs; for a registered name
\* get_optimizer raises nothing and returns that name's optimizer.  (When
\* the loss type is unknown as well, the call has already failed in
\* create_loss_function and get_optimizer is not reached.)
C4_OptimizerFailFast ==
    /\ optimizer_name \notin DOMAIN OPTIMIZERS =>
           /\ pc \in {"start", "loss_built", "error"}
           /\ optimizer = None
           /\ pot_slice_state = None /\ beam_state = None /\ pos_state = None
           /\ update_count = 0 /\ forward_evals = 0 /\ ii = 0
           /\ pc = "error" /\ loss_func # None =>
                  error = <<"ValueError", "get_optimizer">>
    /\ optimizer_name \in DOMAIN OPTIMIZERS =>
           /\ error[2] # "get_optimizer"
           /\ pc \notin {"start", "loss_built"} /\ loss_func # None =>
                  optimizer = OPTIMIZERS[optimizer_name]

C4_Witness ==
    /\ loop = "multi_slice_multi_modal"
    /\ optimizer_name = "sgd"
    /\ loss_func # None
    /\ pc = "error"
    /\ error = <<"ValueError", "get_optimizer">>

\* C5: a loss_type outside {mae, mse, rmse} makes create_loss_function fail
\* when the loss function is built: the call ends there, before any
\* evaluation of the forward model and before any iteration of the loop.
C5_LossTypeFailFast ==
    loss_type \notin DOMAIN loss_functions =>
        /\ pc \in {"start", "error"}
        /\ loss_func = None
        /\ optimizer = None
        /\ forward_evals = 0 /\ update_count = 0 /\ ii = 0
        /\ pc = "error" => error = <<"KeyError", "create_loss_function">>

C5_Witness ==
    /\ loss_type = "huber"
    /\ optimizer_name = "adam"
    /\ pc = "error"
    /\ error = <<"KeyError", "create_loss_function">>

\* The number of logged scan steps that propagated the wave.
RECURSIVE Propagations(_)
Propagations(log) ==
    IF log = <<>> THEN 0
    ELSE (IF log[Len(log)].propagated THEN 1 ELSE 0)
         + Propagations(SubSeq(log, 1, Len(log) - 1))

\* The carry of a scan step that multiplies the wave by `factor`.
StepWith(carry_in, factor, propagated) ==
    LET multiplied == Array([m \in 1..Len(carry_in) |->
                                Times(carry_in[m], factor)])
    IN  IF propagated
        THEN Array([m \in 1..Len(carry_in) |->
                       propagate(multiplied[m], slice_thickness)])
        ELSE multiplied

\* C6: cbed processes the slices in index order 0..S-1, each step starting
\* from the wave the previous step left; the slice multiplication is applied
\* S times and the propagation S-1 times, after every slice but the last.
C6_SlicesInOrder ==
    /\ \A k \in 1..Len(scan_log) :
           /\ scan_log[k].slice_idx = k - 1
           /\ scan_log[k].carry_in =
                  IF k = 1 THEN f_beam ELSE scan_log[k - 1].carry_out
           /\ scan_log[k].propagated <=> (k < Len(f_pot))
           /\ scan_log[k].carry_out =
                  StepWith(scan_log[k].carry_in, f_pot[k], k < Len(f_pot))
    /\ f_pc = "cbed_done" =>
           /\ Len(scan_log) = Len(f_pot)
           /\ Propagations(scan_log) = Len(f_pot) - 1
           /\ wave = scan_log[Len(scan_log)].carry_out
           /\ f_out = cbed(f_pot, f_beam, slice_thickness)

C6_Witness ==
    /\ f_pc = "cbed_done"
    /\ Len(f_pot) >= 2
    /\ scan_log[1].propagated
    /\ scan_log[1].carry_out # scan_log[1].carry_in
    /\ ~scan_log[Len(f_pot)].propagated
    /\ \E k \in Grid : f_out[k] > 0

\* C7: at each slice step of cbed the wave is multiplied by the slice's
\* transmission function, transmission_func applied to that slice's
\* potential, for every mode.
C7_TransmissionFactor ==
    \A k \in 1..Len(scan_log) :
        scan_log[k].carry_out =
            StepWith(scan_log[k].carry_in,
                     transmission_func(f_pot[scan_log[k].slice_idx + 1]),
                     scan_log[k].propagated)

\* C8: cbed of one all-zero potential slice and a single-mode beam returns
\* the squared magnitude of the centred 2-D FFT of the beam.
C8_ZeroPotentialFraunhofer ==
    (f_pc = "cbed_done" /\ f_pot = <<ZeroPot>> /\ Len(f_beam) = 1) =>
        f_out = [k \in Grid |-> CAbs2(fftshift(fft2(f_beam[1]))[k])]

\* C9: the pattern cbed returns for M modes is the sum over the modes of
\* the patterns cbed returns for each mode alone; the modes do not mix in
\* the scan, and the pattern is one real non-negative value per pixel.
C9_IncoherentModeSum ==
    f_pc = "cbed_done" =>
        /\ f_out = SumModes(Array([m \in 1..Len(f_beam) |->
                                cbed(f_pot, <<f_beam[m]>>, slice_thickness)]),
                            Len(f_beam))
        /\ \A m \in 1..Len(f_beam) :
               wave[m] = lax_scan(f_pot, slice_thickness, <<f_beam[m]>>, 0)[1]
        /\ DOMAIN f_out = Grid
        /\ \A k \in Grid : f_out[k] \in Nat

C9_Witness ==
    /\ f_pc = "cbed_done"
    /\ Len(f_beam) = 2
    /\ f_beam[1] # f_beam[2]
    /\ Len(f_pot) = 2
    /\ \E k \in Grid : f_out[k] > 0

\* C10: stem_4D returns one pattern per position, in the order of the
\* position list; pattern i is cbed of the beam shifted to position i alone,
\* and permuting the positions permutes the patterns the same way.
C10_Stem4DPerPosition ==
    f_pc = "stem_done" =>
        /\ DOMAIN f_out = 1..Len(f_pos)
        /\ \A i \in 1..Len(f_pos) :
               f_out[i] = cbed(f_pot,
                               shift_beam_fourier(f_beam, <<f_pos[i]>>)[1],
                               slice_thickness)
        /\ \A perm \in Permutations(1..Len(f_pos)) :
               stem_4D(f_pot, f_beam, [i \in 1..Len(f_pos) |-> f_pos[perm[i]]],
                       slice_thickness)
                 = [i \in 1..Len(f_pos) |-> f_out[perm[i]]]

C10_Witness ==
    /\ f_pc = "stem_done"
    /\ Len(f_pos) = 2
    /\ f_pos[1] # f_pos[2]
    /\ f_out[1] # f_out[2]
    /\ \E k \in Grid : f_out[2][k] > 0

\* C11: shift_beam_fourier is a round trip: a zero displacement returns the
\* beam it was given, and shifting the beam shifted by d back by -d returns
\* the original beam, for every position of the call and every mode.
C11_ShiftRoundTrip ==
    f_pc = "shift_done" =>
        /\ DOMAIN f_out = 1..Len(f_pos)
        /\ \A i \in 1..Len(f_pos) :
               /\ DOMAIN f_out[i] = 1..Len(f_beam)
               /\ f_pos[i] = <<0, 0>> => f_out[i] = f_beam
               /\ shift_beam_fourier(f_out[i], <<Neg(f_pos[i])>>)[1] = f_beam
               /\ shift_beam_fourier(f_beam, <<  <<0, 0>>  >>)[1] = f_beam

C11_Witness ==
    /\ f_pc = "shift_done"
    /\ Len(f_beam) = 2
    /\ Len(f_pos) = 2
    /\ f_pos[1] = <<0, 0>> /\ f_out[1] = f_beam
    /\ f_pos[2] # <<0, 0>> /\ f_out[2] # f_beam
    /\ shift_beam_fourier(f_out[2], <<Neg(f_pos[2])>>)[1] = f_beam

\* The shapes the optimizer states are created from (inverse.py:119-120,
\* 287-289, 477-479, 632-634).
ShapeOf(what) == <<"shape", what>>

\* The estimates and optimizer states a run holds after k iterations when
\* every iteration starts from what the previous one returned.
RECURSIVE ChainAfter(_)
ChainAfter(k) ==
    IF k = 0
    THEN [pot_slice |-> initial_potential.data_array,
          beam |-> first_beam(loop, real_space),
          pos_list |-> <<"initial_pos_list">>,
          pot_slice_state |->
              optimizer_init(optimizer, ShapeOf("initial_potential")),
          beam_state |-> optimizer_init(optimizer, ShapeOf("initial_beam")),
          pos_state |-> IF loop \in PositionLoops
                        THEN optimizer_init(optimizer,
                                            ShapeOf("initial_pos_list"))
                        ELSE None]
    ELSE LET prev == ChainAfter(k - 1)
             args == IF loop \in PositionLoops
                     THEN <<prev.pot_slice, prev.beam, prev.pos_list>>
                     ELSE <<prev.pot_slice, prev.beam>>
             lg == loss_and_grad(loss_func, args)
             p == optimizer_update(optimizer, prev.pot_slice,
                                   lg.grads.pot_slice, prev.pot_slice_state,
                                   learning_rate)
             b == optimizer_update(optimizer, prev.beam, lg.grads.beam,
                                   prev.beam_state, learning_rate)
             x == optimizer_update(optimizer, prev.pos_list,
                                   lg.grads.pos_list, prev.pos_state,
                                   pos_learning_rate(loop, learning_rate).value)
         IN  [pot_slice |-> p.params,
              beam |-> b.params,
              pos_list |-> IF loop \in PositionLoops
                           THEN x.params ELSE prev.pos_list,
              pot_slice_state |-> p.state,
              beam_state |-> b.state,
              pos_state |-> IF loop \in PositionLoops
                            THEN x.state ELSE prev.pos_state]

Current ==
    [pot_slice |-> pot_slice, beam |-> beam, pos_list |-> pos_list,
     pot_slice_state |-> pot_slice_state, beam_state |-> beam_state,
     pos_state |-> pos_state]

\* The arrays of the returned tuple.
ReturnedPotential ==
    IF loop \in CalibratedLoops THEN returned[1].data_array ELSE returned[1]
ReturnedBeam ==
    IF loop \in CalibratedLoops THEN returned[2].data_array ELSE returned[2]

\* C12: the iterations of a run form a chain: what iteration i+1 starts from
\* (estimates and optimizer states) is what iteration i returned, beginning
\* with the initial values, and the values returned at the end are those
\* left by the last iteration.
C12_SequentialChain ==
    /\ pc \in {"iterating", "done"} =>
           /\ ii = update_count
           /\ Current = ChainAfter(update_count)
    /\ pc = "done" =>
           /\ update_count = num_iterations
           /\ ReturnedPotential = ChainAfter(num_iterations).pot_slice
           /\ ReturnedBeam = ChainAfter(num_iterations).beam
           /\ loop \in PositionLoops =>
                  returned[3] = ChainAfter(num_iterations).pos_list

C12_Witness ==
    /\ pc = "done"
    /\ loop = "multi_slice_multi_modal"
    /\ num_iterations = MaxIterations
    /\ update_count = MaxIterations
    /\ returned[1] = pot_slice
    /\ pot_slice # initial_potential.data_array
    /\ pot_slice[3] # initial_potential.data_array

\* The optimizer state `st` was created from `shape` and then updated k
\* times, each time by the update of parameter number `idx`.
RECURSIVE OwnState(_, _, _, _)
OwnState(st, shape, idx, k) ==
    IF k = 0
    THEN st = optimizer_init(optimizer, shape)
    ELSE /\ Len(st) = 4
         /\ st[2] = optimizer[3]
         /\ st[3][1] = "grad"
         /\ st[3][2] = idx
         /\ OwnState(st[4], shape, idx, k - 1)

\* C13: every optimized parameter has its own optimizer state, created once
\* from that parameter's shape and updated exactly once per iteration by that
\* parameter's update; the update of a parameter reads its own state only,
\* and a loop without position update has no position state.
C13_OwnOptimizerState ==
    pc \in {"optimizer_ready", "iterating", "done"} =>
        /\ OwnState(pot_slice_state, ShapeOf("initial_potential"), 0,
                    update_count)
        /\ OwnState(beam_state, ShapeOf("initial_beam"), 1, update_count)
        /\ IF loop \in PositionLoops
           THEN OwnState(pos_state, ShapeOf("initial_pos_list"), 2,
                         update_count)
           ELSE pos_state = None
        /\ update_count > 0 =>
               /\ OwnState(pot_slice[5], ShapeOf("initial_potential"), 0,
                           update_count - 1)
               /\ OwnState(beam[5], ShapeOf("initial_beam"), 1,
                           update_count - 1)
               /\ loop \in PositionLoops =>
                      OwnState(pos_list[5], ShapeOf("initial_pos_list"), 2,
                               update_count - 1)

C13_Witness ==
    /\ pc = "done"
    /\ loop = "single_slice_poscorrected"
    /\ update_count >= 2
    /\ pot_slice_state # beam_state
    /\ beam_state # pos_state
    /\ pos_state[4] # optimizer_init(optimizer, ShapeOf("initial_pos_list"))

\* The learning rate an updated array was computed with.
RateOf(updated) == updated[6]

\* C14: single_slice_poscorrected accepts a scalar learning_rate and uses it
\* for the potential, the beam and the positions; of a two-element
\* learning_rate it uses element 0 for the potential and the beam and
\* element 1 for the positions.
C14_LearningRates ==
    (loop = "single_slice_poscorrected" /\ ValidConfiguration) =>
        /\ pc # "error"
        /\ update_count > 0 =>
               IF ndim(learning_rate) = 0
               THEN /\ RateOf(pot_slice) = learning_rate
                    /\ RateOf(beam) = learning_rate
                    /\ RateOf(pos_list) = learning_rate
               ELSE /\ RateOf(pot_slice) = <<"index", learning_rate, 0>>
                    /\ RateOf(beam) = <<"index", learning_rate, 0>>
                    /\ RateOf(pos_list) = <<"index", learning_rate, 1>>

\* C15: single_slice_multi_modal with a valid configuration does not fail:
\* every iteration updates the potential, the beam and the positions, the
\* positions with a learning rate of the configuration, and after
\* num_iterations iterations the three estimates are returned.
C15_MultiModalRuns ==
    (loop = "single_slice_multi_modal" /\ ValidConfiguration) =>
        /\ pc # "error"
        /\ forward_evals = update_count
        /\ update_count > 0 =>
               /\ pot_slice[1] = "updated"
               /\ beam[1] = "updated"
               /\ pos_list[1] = "updated"
               /\ RateOf(pos_list) # None
        /\ pc = "done" =>
               /\ update_count = num_iterations
               /\ returned[1] = pot_slice
               /\ returned[2] = beam
               /\ returned[3] = pos_list

\* The iterations below n that report, in increasing order.
RECURSIVE ReportIterations(_)
ReportIterations(n) ==
    IF n = 0 THEN <<>>
    ELSE IF (n - 1) % save_every = 0
         THEN Append(ReportIterations(n - 1), n - 1)
         ELSE ReportIterations(n - 1)

\* The loss iteration i computes: the loss at the values it starts from.
LossAt(i) ==
    LET prev == ChainAfter(i)
    IN  loss_and_grad(loss_func,
                      IF loop \in PositionLoops
                      THEN <<prev.pot_slice, prev.beam, prev.pos_list>>
                      ELSE <<prev.pot_slice, prev.beam>>).loss

\* C16: the progress reports follow the snapshot cadence: among the
\* iterations run so far exactly those with ii % save_every = 0 have
\* reported, in increasing order (iteration 0 first), each report carries
\* that iteration's loss, and each report comes with the snapshot statements
\* of the same iteration.
C16_ReportCadence ==
    /\ Len(printed) = Len(ReportIterations(ii))
    /\ Len(snap_log) = Len(printed)
    /\ \A k \in 1..Len(printed) :
           /\ printed[k][1] = ReportIterations(ii)[k]
           /\ printed[k][1] % save_every = 0
           /\ printed[k][2] = LossAt(printed[k][1])
           /\ snap_log[k].ii = printed[k][1]
           /\ k > 1 => printed[k - 1][1] < printed[k][1]
    /\ ii > 0 => (Len(printed) > 0 /\ printed[1][1] = 0)

C16_Witness ==
    /\ pc = "done"
    /\ save_every = 2
    /\ num_iterations = 3
    /\ Len(printed) = 2
    /\ printed[1][1] = 0
    /\ printed[2][1] = 2

\* C17: when single_slice_ptychography or single_slice_poscorrected returns,
\* the potential and the beam it returns are calibrated containers holding
\* the last estimates, with the calib_y and calib_x of the corresponding
\* initial input and real_space = True.
C17_FinalContainers ==
    (pc = "done" /\ loop \in CalibratedLoops) =>
        /\ returned[1].data_array = pot_slice
        /\ returned[1].calib_y = initial_potential.calib_y
        /\ returned[1].calib_x = initial_potential.calib_x
        /\ returned[1].real_space = TRUE
        /\ returned[2].data_array = beam
        /\ returned[2].calib_y = initial_beam(real_space).calib_y
        /\ returned[2].calib_x = initial_beam(real_space).calib_x
        /\ returned[2].real_space = TRUE

C17_Witness ==
    /\ pc = "done"
    /\ loop = "single_slice_poscorrected"
    /\ ~real_space
    /\ update_count = num_iterations
    /\ returned[2].real_space
    /\ returned[2].calib_y = <<"calib_y", "initial_beam">>
    /\ returned[1].calib_x = <<"calib_x", "initial_potential">>

C20_InvalidVoltageRaises ==
    (f_pc = "transmission_done" /\ voltage_kV <= 0) => f_exc = "ValueError"

\* The frequency numerator the DFT assigns to index k of an axis of n
\* pixels: k itself below the Nyquist boundary, k - n from there on.
DftFrequency(n, k) == IF 2 * k < n THEN k ELSE k - n

\* C21: propagation_func builds its kernel, of shape [H, W], on the
\* FFT-ordered frequency grid for every size, odd or even: along each axis
\* index 0 is the zero frequency, the indices below the Nyquist boundary
\* hold k and the others k - N (in units of 1/(N calib)), each congruent to
\* its index modulo N as the bins of fft2 are; shift_beam_fourier builds the
\* same grid, and for a valid voltage the kernel is 1 at zero frequency.
C21_FftOrderedGrid ==
    f_pc = "propagation_done" =>
        LET imsize_y == image_size[1]
            imsize_x == image_size[2]
            idx == (0..(imsize_y - 1)) \X (0..(imsize_x - 1))
        IN  /\ f_exc = "none"
            /\ DOMAIN f_out.prop = idx
            /\ DOMAIN f_out.Lya = idx /\ DOMAIN f_out.Lxa = idx
            /\ \A p \in idx :
                   /\ f_out.Lya[p] = DftFrequency(imsize_y, p[1])
                   /\ f_out.Lxa[p] = DftFrequency(imsize_x, p[2])
                   /\ (f_out.Lya[p] - p[1]) % imsize_y = 0
                   /\ (f_out.Lxa[p] - p[2]) % imsize_x = 0
                   /\ 2 * f_out.Lya[p] \in (-imsize_y)..(imsize_y - 1)
                   /\ 2 * f_out.Lxa[p] \in (-imsize_x)..(imsize_x - 1)
                   /\ p[1] = 0 => f_out.Lya[p] = 0
                   /\ p[2] = 0 => f_out.Lxa[p] = 0
            /\ shift_beam_fourier_grid(imsize_y, imsize_x).qya = f_out.Lya
            /\ shift_beam_fourier_grid(imsize_y, imsize_x).qxa = f_out.Lxa
            /\ voltage_kV > 0 => f_out.prop[<<0, 0>>] = <<"exp_i", 0>>

C21_Witness ==
    /\ f_pc = "propagation_done"
    /\ image_size = <<3, 4>>
    /\ voltage_kV = 300
    /\ f_out.Lya[<<2, 0>>] = -1
    /\ f_out.Lxa[<<0, 2>>] = -2
    /\ f_out.Lxa[<<0, 1>>] = 1
    /\ f_out.prop[<<0, 0>>] = <<"exp_i", 0>>
    /\ f_out.prop[<<1, 1>>] # <<"exp_i", 0>>

WavelengthRank(w) ==
    CASE w.class = "zero" -> 0 [] w.class = "pos" -> 1
      [] w.class = "pos_inf" -> 2 [] OTHER -> -1
WavelengthGreater(a, b) ==
    /\ WavelengthRank(a) >= 0 /\ WavelengthRank(b) >= 0
    /\ IF a.class = "pos" /\ b.class = "pos"
       THEN DecLess(DecMul(b.sq_num, a.sq_den), DecMul(a.sq_num, b.sq_den))
       ELSE WavelengthRank(a) > WavelengthRank(b)
VoltageLess(v1, v2) == DecLess(Dec(v1[1], v1[2]), Dec(v2[1], v2[2]))

\* The voltages for which every intermediate of wavelength_ang is a normal
\* float64: 1e-270 kV to 1e140 kV.
InNormalRange(v) ==
    /\ ~VoltageLess(v, <<1, -270>>)
    /\ ~VoltageLess(<<1, 140>>, v)

\* C23 as stated: for every voltage V > 0 wavelength_ang(V) is positive and
\* finite, and it is strictly decreasing: V1 < V2 implies
\* wavelength_ang(V1) > wavelength_ang(V2).
C23_PositiveDecreasing ==
    f_pc = "wavelength_value_done" =>
        /\ f_out.class = "pos"
        /\ \A v2 \in VoltageValues :
               VoltageLess(voltage_kV, v2) =>
                   WavelengthGreater(f_out,
                                     wavelength_ang_value(Dec(v2[1], v2[2])))

\* C23 as amended: for every voltage from 1e-270 kV to 1e140 kV
\* wavelength_ang(V) is positive and finite, and over that range it is
\* decreasing: V1 < V2 implies wavelength_ang(V1) > wavelength_ang(V2) for
\* voltages that differ by more than the rounding of float64.
C23_DecreasingInRange ==
    (f_pc = "wavelength_value_done" /\ InNormalRange(voltage_kV)) =>
        /\ f_exc = "none"
        /\ f_out.class = "pos"
        /\ \A v2 \in VoltageValues :
               (InNormalRange(v2) /\ VoltageLess(voltage_kV, v2)) =>
                   WavelengthGreater(f_out,
                                     wavelength_ang_value(Dec(v2[1], v2[2])))

C23_Witness ==
    /\ f_pc = "wavelength_value_done"
    /\ voltage_kV = <<200, 0>>
    /\ f_out.class = "pos"
    /\ WavelengthGreater(f_out, wavelength_ang_value(Dec(300, 0)))
    /\ WavelengthGreater(wavelength_ang_value(Dec(1, -3)), f_out)

\* The wavelengths of the claim, <<voltage, wavelength in 1e-7 angstrom>>.
KnownWavelengths ==
    {<< <<200, 0>>, 250800 >>, << <<300, 0>>, 196875 >>,
     << <<1000, 0>>, 87192 >>, << <<1, -3>>, 122642525 >>}

\* |w - x * 1e-7| <= 1e-6 angstrom, for a finite positive w.
WithinTolerance(w, x) ==
    /\ w.class = "pos"
    /\ ~DecLess(w.sq_num,
                DecMul(DecMul(Dec(x - 10, -7), Dec(x - 10, -7)), w.sq_den))
    /\ ~DecLess(DecMul(DecMul(Dec(x + 10, -7), Dec(x + 10, -7)), w.sq_den),
                w.sq_num)

\* C24: wavelength_ang returns 0.02508 angstrom at 200 kV, 0.0196875 at
\* 300 kV, 0.0087192 at 1000 kV and 12.2642525 at 0.001 kV, each within
\* 1e-6 angstrom.
C24_KnownWavelengths ==
    f_pc = "wavelength_value_done" =>
        \A known \in KnownWavelengths :
            voltage_kV = known[1] => WithinTolerance(f_out, known[2])

C24_Witness ==
    /\ f_pc = "wavelength_value_done"
    /\ voltage_kV = <<1, -3>>
    /\ WithinTolerance(f_out, 122642525)
    /\ ~WithinTolerance(f_out, 122642536)
    /\ ~WithinTolerance(f_out, 122642514)

\* The array an estimate was first set to, before any update.
RECURSIVE OriginOf(_)
OriginOf(estimate) ==
    IF estimate[1] = "updated" THEN OriginOf(estimate[3]) ELSE estimate

\* The initial beam as a real-space array.
RealSpaceBeam ==
    IF real_space THEN initial_beam(real_space).data_array
    ELSE <<"ifft2", initial_beam(real_space).data_array>>

\* C25: both loops that take the initial beam as a calibrated array start
\* from the beam in real space: a beam given in Fourier space
\* (real_space = False) is inverse-transformed before the first iteration,
\* so the beam returned with real_space = True is a real-space array, in
\* single_slice_poscorrected as in single_slice_ptychography.
C25_BeamInRealSpace ==
    loop \in CalibratedLoops =>
        /\ pc = "iterating" => OriginOf(beam) = RealSpaceBeam
        /\ pc = "done" =>
               /\ returned[2].real_space = TRUE
               /\ OriginOf(returned[2].data_array) = RealSpaceBeam

\* The parameters an iteration starts from, as loss_and_grad receives them.
Entering ==
    IF loop \in PositionLoops
    THEN <<pot_slice, beam, pos_list>> ELSE <<pot_slice, beam>>

\* C26: every completed iteration makes one value-and-gradient evaluation,
\* at the parameters that entered the iteration; the loss and the gradient
\* of every updated parameter come from that evaluation, each parameter is
\* updated from its entering value, and no gradient is taken at a value
\* another update of the same iteration produced.
C26_OneEvaluation ==
    [][update_count' = update_count + 1 =>
          LET lg == loss_and_grad(loss_func, Entering)
          IN  /\ forward_evals' = forward_evals + 1
              /\ loss' = lg.loss
              /\ pot_slice'[3] = pot_slice
              /\ pot_slice'[4] = lg.grads.pot_slice
              /\ beam'[3] = beam
              /\ beam'[4] = lg.grads.beam
              /\ IF loop \in PositionLoops
                 THEN /\ pos_list'[3] = pos_list
                      /\ pos_list'[4] = lg.grads.pos_list
                 ELSE pos_list' = pos_list]_vars

C26_Witness ==
    /\ pc = "done"
    /\ loop = "multi_slice_multi_modal"
    /\ update_count >= 2
    /\ beam[4][4][1] = pot_slice[3]
    /\ beam[4][4][1] # pot_slice
    /\ pos_list[4][4] = pot_slice[4][4]
    /\ loss = <<"loss", loss_func, beam[4][4]>>

\* The loss of the potential p, the beam b and the positions x.
LossOf(p, b, x) ==
    loss_and_grad(loss_func,
                  IF loop \in PositionLoops THEN <<p, b, x>> ELSE <<p, b>>).loss

\* C27: at a snapshot iteration the reported loss is the loss of the
\* parameters that entered the iteration, the snapshot holds the parameters
\* that leave it, so the reported loss is not the loss of the snapshotted
\* parameters; and when the loop returns, the loss of the returned
\* parameters has not been evaluated: every evaluation was made by an
\* iteration before its update.
C27_LossBeforeUpdate ==
    /\ \A k \in 1..Len(printed) :
           LET s == snap_log[k]
           IN  /\ s.pot_slice[1] = "updated"
               /\ s.beam[1] = "updated"
               /\ loop \in PositionLoops => s.pos_list[1] = "updated"
               /\ printed[k][2] =
                      LossOf(s.pot_slice[3], s.beam[3],
                             IF loop \in PositionLoops
                             THEN s.pos_list[3] ELSE s.pos_list)
               /\ printed[k][2] # LossOf(s.pot_slice, s.beam, s.pos_list)
    /\ pc = "done" =>
           /\ forward_evals = update_count
           /\ update_count > 0 => loss # LossOf(pot_slice, beam, pos_list)
           /\ \A k \in 1..Len(printed) :
                  printed[k][2] # LossOf(pot_slice, beam, pos_list)

C27_Witness ==
    /\ pc = "done"
    /\ loop = "single_slice_ptychography"
    /\ num_iterations = 3
    /\ save_every = 2
    /\ Len(printed) = 2
    /\ snap_log[2].pot_slice = pot_slice
    /\ printed[2][2] = LossOf(pot_slice[3], beam[3], pos_list)

\* C28: the grid of fourier_coords and of make_probe is the FFT-ordered grid
\* of propagation_func and shift_beam_fourier for every image size, odd or
\* even: along each axis the entry at index k is the DFT frequency of k, so
\* the first entry is the zero frequency and every entry is an integer
\* multiple of 1 / FOV (an even number in the doubled units of the grid).
C28_RolledGridIsFftOrdered ==
    f_pc = "fourier_coords_done" =>
        LET idx == (0..(image_size[1] - 1)) \X (0..(image_size[2] - 1))
            reference == shift_beam_fourier_grid(image_size[1], image_size[2])
            probe == make_probe_grid(image_size)
        IN  /\ DOMAIN f_out.inverse_yy = idx
            /\ DOMAIN f_out.inverse_xx = idx
            /\ f_out.inverse_yy[<<0, 0>>] = 0
            /\ f_out.inverse_xx[<<0, 0>>] = 0
            /\ \A p \in idx :
                   /\ f_out.inverse_yy[p] % 2 = 0
                   /\ f_out.inverse_xx[p] % 2 = 0
                   /\ f_out.inverse_yy[p] = 2 * reference.qya[p]
                   /\ f_out.inverse_xx[p] = 2 * reference.qxa[p]
                   /\ f_out.inverse_yy[p] = 2 * DftFrequency(image_size[1], p[1])
                   /\ f_out.inverse_xx[p] = 2 * DftFrequency(image_size[2], p[2])
                   /\ probe.Lxa[p] = 2 * reference.qya[p]
                   /\ probe.Lya[p] = 2 * reference.qxa[p]

\* C29: the arrays a reconstruction loop hands to stem_4D follow the axis
\* convention of the forward model: for an [H, W] potential and an [H, W]
\* beam, stem_4D and cbed see [H, W, 1] arrays, with H and W as the first
\* two axes and the slice/mode axis of size 1 last, so that the spatial
\* sizes of the two agree with each other and the simulated patterns have
\* the shape [P, H, W] of the measured data.
C29_AxisConvention ==
    forward_evals > 0 =>
        LET image == <<data_shape[2], data_shape[3]>>
        IN  /\ stem_4D_seen.pot_slice = Append(image, 1)
            /\ stem_4D_seen.beam = Append(image, 1)
            /\ stem_4D_seen.spatial_pot = image
            /\ stem_4D_seen.spatial_beam = image
            /\ stem_4D_seen.num_slices = 1
            /\ stem_4D_seen.num_modes = 1
            /\ stem_4D_seen.patterns = data_shape

====
